---- MODULE Spec2Model ----
(***************************************************************************)
(* A model of subdivided_triangulated_cube_part_1_start.py: a script that  *)
(* runs inside Blender and drives the host's scene database through bpy.   *)
(*                                                                         *)
(* The state is the part of the host database the script reads and writes  *)
(* (data blocks and their users, objects and their flags, collections,     *)
(* worlds, the mesh selection mode, F-curves, scene properties) together   *)
(* with the interpreter's call stack.  Every function of the script is one *)
(* or more actions, one per statement group, in program order.  A host     *)
(* operator of bpy.ops or bpy.data is modelled at the call site by the     *)
(* effect the script relies on.                                            *)
(***************************************************************************)
EXTENDS Integers, Sequences, FiniteSets, TLC

(***************************************************************************)
(* Bounds of the exploration.                                              *)
(***************************************************************************)
MaxBlocks == 3
MaxObjects == 2
MaxWorlds == 2
MaxValue == 2
MaxFrame == 2
MaxLoop == 3
MaxTime == 2

VARIABLES
    app_version,   \* bpy.app.version, a tuple <<major, minor, patch>>
    ids,           \* bpy.data: the data blocks (IDs) in the database
    uses,          \* <<a, b>>: data block a holds a reference to data block b
    scene_links,   \* objects and collections linked to the scene's collection
    fake_user,     \* data blocks kept alive by a fake user
    scene_world,   \* bpy.context.scene.world (an ID or None)
    ob,            \* per object: hide, hide_select, hide_viewport, select, mode
    coll_hidden,   \* collections whose hide_viewport flag is set
    active,        \* bpy.context.active_object (an ID or None)
    select_mode,   \* the mesh selection mode of the tool settings
    world_bg,      \* per world with a Background node: its colour
    prop,          \* per object: the value of the animated property data_path
    fcurve,        \* per object: the F-curve of data_path, frame -> value
    extrapolation, \* per object with animation data: its F-curves' extrapolation
    scene,         \* frame_end, fps, frame_current, frame_start
    clipboard,     \* bpy.context.window_manager.clipboard
    rng_seed,      \* the seed last given to random.seed
    stack,         \* the call stack, innermost frame first: program labels
    raised,        \* the exception that ended the script, or NoError
    result,        \* purge_orphans: the local variable result (a set)
    args,          \* the arguments of the entry call
    purge_log,     \* history: the result of every host purge call, in order
    inserted,      \* history: every keyframe_insert call, in order
    entered,       \* history: the functions of the script entered, in order
    printed,       \* history: the messages printed
    entry          \* history: the host state at the entry call

vars == <<app_version, ids, uses, scene_links, fake_user, scene_world, ob,
          coll_hidden, active, select_mode, world_bg, prop, fcurve,
          extrapolation, scene, clipboard, rng_seed, stack, raised, result,
          args, purge_log, inserted, entered, printed, entry>>

\* The host database.
db == <<ids, uses, scene_links, fake_user, scene_world, ob, coll_hidden,
        active, world_bg>>
\* The rest of the host state.
hostrest == <<select_mode, prop, fcurve, extrapolation, scene, clipboard,
              rng_seed>>
host == <<db, hostrest>>
history == <<purge_log, inserted, entered, printed, entry>>

\* Python's None where a data block is expected, and where an exception is.
None == <<"None", 0>>
NoError == "NoError"

\* Empty per-object tables, and the scene properties of a new file.
NoFlags == [x \in {} |-> FALSE]
NoKeys == [f \in {} |-> 0]
DefaultScene == [frame_end |-> 250, fps |-> 24, frame_current |-> 1, frame_start |-> 1]

(***************************************************************************)
(* Data blocks.  An ID is <<kind, index>>.                                 *)
(***************************************************************************)
OB(i) == <<"OB", i>>
ME(i) == <<"ME", i>>
GR(i) == <<"GR", i>>
WO(i) == <<"WO", i>>
IM(i) == <<"IM", i>>

Kind(x) == x[1]
OfKind(I, k) == {x \in I : Kind(x) = k}

Objects == OfKind(ids, "OB")
Collections == OfKind(ids, "GR")
Worlds == OfKind(ids, "WO")

\* The world the host names "World" carries index 0; index n > 0 stands for
\* the name "World.00n" (or any other name that is not "World").
WorldNamed(name) == IF name = "World" THEN WO(0) ELSE None

(***************************************************************************)
(* The interpreter: calls, jumps and returns on the stack of labels.       *)
(***************************************************************************)
Running == stack # <<>>
At(label) == Running /\ Head(stack) = label

RECURSIVE Unwind(_)
\* A frame at "return" has nothing left to do but return to its caller.
Unwind(s) == IF s # <<>> /\ Head(s) = "return" THEN Unwind(Tail(s)) ELSE s

Goto(label) == stack' = <<label>> \o Tail(stack)
Call(callee, continuation) == stack' = <<callee, continuation>> \o Tail(stack)
Return == stack' = Unwind(Tail(stack))
Raise(exc) == stack' = <<>> /\ raised' = exc

Done == stack = <<>> /\ raised = NoError

\* What is remembered of the host state at the entry call: the data blocks,
\* the active object, the mesh selection mode, the objects in Edit Mode, the
\* selected objects, and the hide flags that some object had set.
Entry ==
    [ids |-> ids, active |-> active, select_mode |-> select_mode,
     edit |-> {o \in DOMAIN ob : ob[o].mode = "EDIT"},
     selected |-> {o \in DOMAIN ob : ob[o].select},
     hidden |-> {f \in {"hide", "hide_select", "hide_viewport"} :
                    \E o \in DOMAIN ob : ob[o][f]}]

(***************************************************************************)
(* bpy.app.version >= (3, 0, 0): Python compares tuples lexicographically. *)
(***************************************************************************)
RECURSIVE TupleGE(_, _)
TupleGE(a, b) ==
    IF b = <<>> THEN TRUE
    ELSE IF a = <<>> THEN FALSE
    ELSE IF Head(a) # Head(b) THEN Head(a) > Head(b)
    ELSE TupleGE(Tail(a), Tail(b))

VersionCheck(v) == TupleGE(v, <<3, 0, 0>>)

Versions == {<<2, 93, 18>>, <<3, 0, 0>>}

(***************************************************************************)
(* Users of a data block and the host's orphan purge.                      *)
(***************************************************************************)
\* The users of x among the data blocks I: references from blocks of I, the
\* scene's collection, a fake user, the scene's world slot.
UsersIn(x, I) ==
    Cardinality({p \in uses : p[1] \in I /\ p[2] = x})
    + (IF x \in scene_links THEN 1 ELSE 0)
    + (IF x \in fake_user THEN 1 ELSE 0)
    + (IF x = scene_world THEN 1 ELSE 0)

OrphansIn(I) == {x \in I : UsersIn(x, I) = 0}

\* The database after the data blocks of I \ J are freed.
Restrict(f, J) == [x \in DOMAIN f \cap J |-> f[x]]
FreeTo(J) ==
    /\ ids' = J
    /\ uses' = {p \in uses : p[1] \in J /\ p[2] \in J}
    /\ scene_links' = scene_links \cap J
    /\ fake_user' = fake_user \cap J
    /\ scene_world' = IF scene_world \in J THEN scene_world ELSE None
    /\ ob' = Restrict(ob, J)
    /\ coll_hidden' = coll_hidden \cap J
    /\ active' = IF active \in J THEN active ELSE None
    /\ world_bg' = Restrict(world_bg, J)
    /\ prop' = Restrict(prop, J)
    /\ fcurve' = Restrict(fcurve, J)
    /\ extrapolation' = Restrict(extrapolation, J)

\* bpy.ops.outliner.orphans_purge(): one pass frees the data blocks that have
\* no user now; the operator is cancelled when there is none.
OrphansPurgeKeep(I) == I \ OrphansIn(I)
OrphansPurgeResult(I) == IF OrphansIn(I) = {} THEN {"CANCELLED"} ELSE {"FINISHED"}

RECURSIVE OrphansPurgeRecursiveKeep(_)
\* do_recursive=True: passes are repeated until no orphan is left.
OrphansPurgeRecursiveKeep(I) ==
    IF OrphansIn(I) = {} THEN I
    ELSE OrphansPurgeRecursiveKeep(OrphansPurgeKeep(I))

\* result.pop(): the element of the one-element set the operator returned.
Pop(s) == CHOOSE x \in s : TRUE

(***************************************************************************)
(* purge_orphans                                                           *)
(***************************************************************************)
purge_orphans_modern ==
    /\ At("purge_orphans")
    /\ VersionCheck(app_version)
    /\ FreeTo(OrphansPurgeRecursiveKeep(ids))
    /\ purge_log' = Append(purge_log, OrphansPurgeResult(ids))
    /\ Return
    /\ UNCHANGED <<app_version, select_mode, scene, clipboard, rng_seed, raised,
                   result, args, inserted, entered, printed, entry>>

purge_orphans_legacy ==
    /\ At("purge_orphans")
    /\ ~VersionCheck(app_version)
    /\ FreeTo(OrphansPurgeKeep(ids))
    /\ result' = OrphansPurgeResult(ids)
    /\ purge_log' = Append(purge_log, OrphansPurgeResult(ids))
    /\ Goto("purge_orphans_check")
    /\ UNCHANGED <<app_version, select_mode, scene, clipboard, rng_seed, raised,
                   args, inserted, entered, printed, entry>>

\* Variants of the test below, for sensitivity: recursing whatever the result
\* was, and never recursing.
RecurseAlways(r) == TRUE
RecurseNever(r) == FALSE
\* if result.pop() != "CANCELLED"
Recurse(r) == Pop(r) # "CANCELLED"

purge_orphans_check ==
    /\ At("purge_orphans_check")
    /\ IF Recurse(result)
       THEN /\ Call("purge_orphans", "return")
            /\ entered' = Append(entered, "purge_orphans")
       ELSE /\ Return
            /\ UNCHANGED entered
    /\ result' = {}
    /\ UNCHANGED <<app_version, host, raised, args, purge_log, inserted, printed,
                   entry>>

PurgeNext == purge_orphans_modern \/ purge_orphans_legacy \/ purge_orphans_check

(***************************************************************************)
(* clean_scene                                                             *)
(***************************************************************************)
\* An object is visible in the view layer when none of its own hide flags is
\* set and a collection that holds it is shown.
InShownCollection(o) ==
    \/ o \in scene_links
    \/ \E c \in Collections : <<c, o>> \in uses /\ c \notin coll_hidden
Visible(o) == ~ob[o].hide /\ ~ob[o].hide_viewport /\ InShownCollection(o)
Selectable(o) == Visible(o) /\ ~ob[o].hide_select

\* bpy.ops.object.editmode_toggle(): the objects in Edit Mode leave it.
EditmodeToggleOff(r) == [r EXCEPT !.mode = IF @ = "EDIT" THEN "OBJECT" ELSE @]

\* if bpy.context.active_object and bpy.context.active_object.mode == "EDIT"
clean_scene ==
    /\ At("clean_scene")
    /\ IF active # None /\ ob[active].mode = "EDIT"
       THEN ob' = [o \in DOMAIN ob |-> EditmodeToggleOff(ob[o])]
       ELSE ob' = ob
    /\ Goto("clean_scene_unhide")
    /\ UNCHANGED <<app_version, ids, uses, scene_links, fake_user, scene_world,
                   coll_hidden, active, world_bg, hostrest, raised, result,
                   args, history>>

\* Variant for sensitivity: hide_select is left as it is.
UnhideKeepSelect(r) == [r EXCEPT !.hide = FALSE, !.hide_viewport = FALSE]
\* obj.hide_set(False); obj.hide_select = False; obj.hide_viewport = False
Unhide(r) == [r EXCEPT !.hide = FALSE, !.hide_select = FALSE, !.hide_viewport = FALSE]

\* for obj in bpy.data.objects
clean_scene_unhide ==
    /\ At("clean_scene_unhide")
    /\ ob' = [o \in DOMAIN ob |-> Unhide(ob[o])]
    /\ Goto("clean_scene_select_all")
    /\ UNCHANGED <<app_version, ids, uses, scene_links, fake_user, scene_world,
                   coll_hidden, active, world_bg, hostrest, raised, result,
                   args, history>>

\* The object operators run in Object Mode only: their poll fails, and the
\* call raises RuntimeError, while the active object is in another mode.
ObjectModePoll == active = None \/ ob[active].mode = "OBJECT"

\* bpy.ops.object.select_all(action="SELECT")
clean_scene_select_all ==
    /\ At("clean_scene_select_all")
    /\ IF ObjectModePoll
       THEN /\ ob' = [o \in DOMAIN ob |->
                        IF Selectable(o) THEN [ob[o] EXCEPT !.select = TRUE] ELSE ob[o]]
            /\ Goto("clean_scene_delete")
            /\ UNCHANGED raised
       ELSE /\ Raise("RuntimeError")
            /\ UNCHANGED ob
    /\ UNCHANGED <<app_version, ids, uses, scene_links, fake_user, scene_world,
                   coll_hidden, active, world_bg, hostrest, result, args, history>>

\* bpy.ops.object.delete() frees the selected objects of the view layer.
Deleted == {o \in Objects : ob[o].select /\ Visible(o)}

clean_scene_delete ==
    /\ At("clean_scene_delete")
    /\ FreeTo(ids \ Deleted)
    /\ Goto("clean_scene_collections")
    /\ UNCHANGED <<app_version, select_mode, scene, clipboard, rng_seed, raised,
                   result, args, history>>

\* collection_names = [col.name for col in bpy.data.collections]
collection_names == Collections

\* bpy.data.collections.remove(bpy.data.collections[name]) for every name
clean_scene_collections ==
    /\ At("clean_scene_collections")
    /\ FreeTo(ids \ collection_names)
    /\ Goto("clean_scene_worlds")
    /\ UNCHANGED <<app_version, select_mode, scene, clipboard, rng_seed, raised,
                   result, args, history>>

\* Variant for sensitivity: no world is removed.
WorldNamesNone == {}
\* world_names = [world.name for world in bpy.data.worlds]
world_names == Worlds

\* bpy.data.worlds.remove(bpy.data.worlds[name]) for every name
clean_scene_worlds ==
    /\ At("clean_scene_worlds")
    /\ FreeTo(ids \ world_names)
    /\ Goto("clean_scene_world_new")
    /\ UNCHANGED <<app_version, select_mode, scene, clipboard, rng_seed, raised,
                   result, args, history>>

\* The host gives a new world the name "World", or "World.001", "World.002",
\* ... when that name is taken: the first index not in use.
NewWorldIndex ==
    CHOOSE i \in 0..Cardinality(Worlds) :
        /\ WO(i) \notin ids
        /\ \A j \in 0..(i - 1) : WO(j) \in ids

DefaultBackground == "grey"

\* bpy.ops.world.new(): a world with a node tree that has a Background node.
clean_scene_world_new ==
    /\ At("clean_scene_world_new")
    /\ ids' = ids \cup {WO(NewWorldIndex)}
    /\ world_bg' = [w \in DOMAIN world_bg \cup {WO(NewWorldIndex)} |->
                      IF w = WO(NewWorldIndex) THEN DefaultBackground ELSE world_bg[w]]
    /\ Goto("clean_scene_set_world")
    /\ UNCHANGED <<app_version, uses, scene_links, fake_user, scene_world, ob,
                   coll_hidden, active, hostrest, raised, result, args, history>>

\* bpy.context.scene.world = bpy.data.worlds["World"]
clean_scene_set_world ==
    /\ At("clean_scene_set_world")
    /\ IF WorldNamed("World") \in ids
       THEN /\ scene_world' = WorldNamed("World")
            /\ Goto("clean_scene_purge")
            /\ UNCHANGED raised
       ELSE /\ Raise("KeyError")
            /\ UNCHANGED scene_world
    /\ UNCHANGED <<app_version, ids, uses, scene_links, fake_user, ob, coll_hidden,
                   active, world_bg, hostrest, result, args, history>>

\* purge_orphans()
clean_scene_purge ==
    /\ At("clean_scene_purge")
    /\ Call("purge_orphans", "return")
    /\ entered' = Append(entered, "purge_orphans")
    /\ UNCHANGED <<app_version, host, raised, result, args, purge_log, inserted,
                   printed, entry>>

CleanNext ==
    \/ clean_scene
    \/ clean_scene_unhide
    \/ clean_scene_select_all
    \/ clean_scene_delete
    \/ clean_scene_collections
    \/ clean_scene_worlds
    \/ clean_scene_world_new
    \/ clean_scene_set_world
    \/ clean_scene_purge
    \/ PurgeNext

(***************************************************************************)
(* time_seed, set_scene_props, scene_setup, create_centerpiece, main       *)
(***************************************************************************)
\* time.time(): the seconds since the epoch, never zero.
Times == 1..MaxTime

\* seed = time.time(); print; random.seed(seed); clipboard = str(seed)
time_seed ==
    /\ At("time_seed")
    /\ \E seed \in Times :
        /\ printed' = Append(printed, <<"seed", seed>>)
        /\ rng_seed' = seed
        /\ clipboard' = ToString(seed)
    /\ Return
    /\ UNCHANGED <<app_version, db, select_mode, prop, fcurve, extrapolation,
                   scene, raised, result, args, purge_log, inserted, entered, entry>>

Black == "black"

\* scene.frame_end, the world background, scene.render.fps, frame_current,
\* frame_start; bpy.data.worlds["World"] raises KeyError without that world.
set_scene_props ==
    /\ At("set_scene_props")
    /\ IF WorldNamed("World") \in ids
       THEN /\ world_bg' = [w \in DOMAIN world_bg |->
                              IF w = WorldNamed("World") THEN Black ELSE world_bg[w]]
            /\ scene' = [frame_end |-> args.frame_count, fps |-> args.fps,
                         frame_current |-> 1, frame_start |-> 1]
            /\ Return
            /\ UNCHANGED raised
       ELSE /\ scene' = [scene EXCEPT !.frame_end = args.frame_count]
            /\ Raise("KeyError")
            /\ UNCHANGED world_bg
    /\ UNCHANGED <<app_version, ids, uses, scene_links, fake_user, scene_world, ob,
                   coll_hidden, active, select_mode, prop, fcurve, extrapolation,
                   clipboard, rng_seed, result, args, history>>

Fps == 30
LoopSeconds == 12
Seed == 0

\* fps = 30; loop_seconds = 12; frame_count = fps * loop_seconds; seed = 0;
\* if seed: random.seed(seed) else: time_seed()
scene_setup ==
    /\ At("scene_setup")
    /\ args' = [fps |-> Fps, frame_count |-> Fps * LoopSeconds]
    /\ IF Seed # 0
       THEN /\ rng_seed' = Seed
            /\ Goto("scene_setup_clean_scene")
            /\ UNCHANGED entered
       ELSE /\ Call("time_seed", "scene_setup_clean_scene")
            /\ entered' = Append(entered, "time_seed")
            /\ UNCHANGED rng_seed
    /\ UNCHANGED <<app_version, db, select_mode, prop, fcurve, extrapolation,
                   scene, clipboard, raised, result, purge_log, inserted, printed,
                   entry>>

\* clean_scene()
scene_setup_clean_scene ==
    /\ At("scene_setup_clean_scene")
    /\ Call("clean_scene", "scene_setup_set_scene_props")
    /\ entered' = Append(entered, "clean_scene")
    /\ UNCHANGED <<app_version, host, raised, result, args, purge_log, inserted,
                   printed, entry>>

\* set_scene_props(fps, frame_count)
scene_setup_set_scene_props ==
    /\ At("scene_setup_set_scene_props")
    /\ Call("set_scene_props", "return")
    /\ entered' = Append(entered, "set_scene_props")
    /\ UNCHANGED <<app_version, host, raised, result, args, purge_log, inserted,
                   printed, entry>>

\* scene_setup()
main ==
    /\ At("main")
    /\ Call("scene_setup", "main_create_centerpiece")
    /\ entered' = Append(entered, "scene_setup")
    /\ UNCHANGED <<app_version, host, raised, result, args, purge_log, inserted,
                   printed, entry>>

\* create_centerpiece()
main_create_centerpiece ==
    /\ At("main_create_centerpiece")
    /\ Call("create_centerpiece", "return")
    /\ entered' = Append(entered, "create_centerpiece")
    /\ UNCHANGED <<app_version, host, raised, result, args, purge_log, inserted,
                   printed, entry>>

\* Variant for sensitivity: a body that moves the current frame.
CenterpieceSceneMoved == [scene EXCEPT !.frame_current = scene.frame_end]
\* The scene properties create_centerpiece leaves: its body is pass.
CenterpieceScene == scene

create_centerpiece ==
    /\ At("create_centerpiece")
    /\ scene' = CenterpieceScene
    /\ Return
    /\ UNCHANGED <<app_version, db, select_mode, prop, fcurve, extrapolation,
                   clipboard, rng_seed, raised, result, args, history>>

MainNext ==
    \/ main
    \/ scene_setup
    \/ time_seed
    \/ scene_setup_clean_scene
    \/ scene_setup_set_scene_props
    \/ set_scene_props
    \/ main_create_centerpiece
    \/ create_centerpiece
    \/ CleanNext

(***************************************************************************)
(* enter_edit_mode, set_selection_mode                                     *)
(***************************************************************************)
\* bpy.ops.object.mode_set(mode='EDIT'): the active object enters Edit Mode,
\* and with it the selected objects that are in Object Mode.
ModeSetEdit(f, a) ==
    [o \in DOMAIN f |->
        IF o = a \/ (f[o].select /\ f[o].mode = "OBJECT")
        THEN [f[o] EXCEPT !.mode = "EDIT"]
        ELSE f[o]]

\* bpy.context.view_layer.objects.active = obj; obj.select_set(True);
\* bpy.ops.object.mode_set(mode='EDIT')
enter_edit_mode ==
    /\ At("enter_edit_mode")
    /\ active' = args.obj
    /\ ob' = ModeSetEdit([ob EXCEPT ![args.obj].select = TRUE], args.obj)
    /\ Return
    /\ UNCHANGED <<app_version, ids, uses, scene_links, fake_user, scene_world,
                   coll_hidden, world_bg, hostrest, raised, result, args, history>>

\* Variant for sensitivity: the mode is never switched.
NeedsEditModeNever(m) == FALSE
\* if obj.mode != 'EDIT'
NeedsEditMode(m) == m # "EDIT"

set_selection_mode ==
    /\ At("set_selection_mode")
    /\ IF NeedsEditMode(ob[args.obj].mode)
       THEN /\ Call("enter_edit_mode", "set_selection_mode_select")
            /\ entered' = Append(entered, "enter_edit_mode")
       ELSE /\ Goto("set_selection_mode_select")
            /\ UNCHANGED entered
    /\ UNCHANGED <<app_version, host, raised, result, args, purge_log, inserted,
                   printed, entry>>

Unsupported == "Unsupported"

\* The type given to bpy.ops.mesh.select_mode for mode, Unsupported for a
\* mode the if/elif chain does not know.
SelectType(mode) ==
    IF mode = "VERTEX" THEN "VERT"
    ELSE IF mode = "EDGE" THEN "EDGE"
    ELSE IF mode = "FACE" THEN "FACE"
    ELSE Unsupported

\* bpy.ops.mesh.select_mode runs on a mesh in Edit Mode only.
EditMeshPoll == active # None /\ ob[active].mode = "EDIT"

set_selection_mode_select ==
    /\ At("set_selection_mode_select")
    /\ IF SelectType(args.mode) = Unsupported
       THEN /\ printed' = Append(printed, <<"Unsupported mode", args.mode>>)
            /\ Return
            /\ UNCHANGED <<select_mode, raised>>
       ELSE /\ IF EditMeshPoll
               THEN /\ select_mode' = SelectType(args.mode)
                    /\ Return
                    /\ UNCHANGED raised
               ELSE /\ Raise("RuntimeError")
                    /\ UNCHANGED select_mode
            /\ UNCHANGED printed
    /\ UNCHANGED <<app_version, db, prop, fcurve, extrapolation, scene, clipboard,
                   rng_seed, result, args, purge_log, inserted, entered, entry>>

SelNext == set_selection_mode \/ enter_edit_mode \/ set_selection_mode_select

(***************************************************************************)
(* set_fcurve_extrapolation_to_linear, create_data_animation_loop          *)
(*                                                                         *)
(* Frames are kept in half frames, so that Python's true division by 2 of  *)
(* an integer loop length is exact: frame f is the number 2 * f.           *)
(***************************************************************************)
Frame(f) == 2 * f

\* Variant for sensitivity: floor division, loop_length // 2.
MidFrameFloor(start_frame, loop_length) == Frame(start_frame + (loop_length \div 2))
\* mid_frame = start_frame + (loop_length) / 2
MidFrame(start_frame, loop_length) == Frame(start_frame) + loop_length

\* end_frame = start_frame + loop_length
EndFrame(start_frame, loop_length) == Frame(start_frame + loop_length)

\* obj.keyframe_insert(data_path, frame=frame): the F-curve of data_path gets
\* a keyframe with the property's current value at frame, replacing the one
\* already there; the object gets animation data if it had none.
KeyframeInsert(o, frame) ==
    LET old == IF o \in DOMAIN fcurve THEN fcurve[o] ELSE NoKeys
        new == [f \in DOMAIN old \cup {frame} |-> IF f = frame THEN prop[o] ELSE old[f]]
    IN  /\ fcurve' = [x \in DOMAIN fcurve \cup {o} |-> IF x = o THEN new ELSE fcurve[x]]
        /\ extrapolation' = [x \in DOMAIN extrapolation \cup {o} |->
                                IF x \in DOMAIN extrapolation THEN extrapolation[x]
                                ELSE "CONSTANT"]
        /\ inserted' = Append(inserted, [frame |-> frame, value |-> prop[o]])

SetProp(value) ==
    /\ prop' = [prop EXCEPT ![args.obj] = value]
    /\ UNCHANGED <<app_version, db, select_mode, fcurve, extrapolation, scene,
                   clipboard, rng_seed, raised, result, args, history>>

InsertKey(frame) ==
    /\ KeyframeInsert(args.obj, frame)
    /\ UNCHANGED <<app_version, db, select_mode, prop, scene, clipboard, rng_seed,
                   raised, result, args, purge_log, entered, printed, entry>>

\* setattr(obj, data_path, start_value)
create_data_animation_loop ==
    /\ At("create_data_animation_loop")
    /\ SetProp(args.start_value)
    /\ Goto("create_data_animation_loop_key_start")

\* obj.keyframe_insert(data_path, frame=start_frame)
create_data_animation_loop_key_start ==
    /\ At("create_data_animation_loop_key_start")
    /\ InsertKey(Frame(args.start_frame))
    /\ Goto("create_data_animation_loop_set_mid")

\* setattr(obj, data_path, mid_value)
create_data_animation_loop_set_mid ==
    /\ At("create_data_animation_loop_set_mid")
    /\ SetProp(args.mid_value)
    /\ Goto("create_data_animation_loop_key_mid")

\* obj.keyframe_insert(data_path, frame=mid_frame)
create_data_animation_loop_key_mid ==
    /\ At("create_data_animation_loop_key_mid")
    /\ InsertKey(MidFrame(args.start_frame, args.loop_length))
    /\ Goto("create_data_animation_loop_set_end")

\* setattr(obj, data_path, start_value)
create_data_animation_loop_set_end ==
    /\ At("create_data_animation_loop_set_end")
    /\ SetProp(args.start_value)
    /\ Goto("create_data_animation_loop_key_end")

\* obj.keyframe_insert(data_path, frame=end_frame)
create_data_animation_loop_key_end ==
    /\ At("create_data_animation_loop_key_end")
    /\ InsertKey(EndFrame(args.start_frame, args.loop_length))
    /\ Goto("create_data_animation_loop_extrapolation")

\* if linear_extrapolation: set_fcurve_extrapolation_to_linear()
create_data_animation_loop_extrapolation ==
    /\ At("create_data_animation_loop_extrapolation")
    /\ IF args.linear_extrapolation
       THEN /\ Call("set_fcurve_extrapolation_to_linear", "return")
            /\ entered' = Append(entered, "set_fcurve_extrapolation_to_linear")
       ELSE /\ Return
            /\ UNCHANGED entered
    /\ UNCHANGED <<app_version, host, raised, result, args, purge_log, inserted,
                   printed, entry>>

\* for fc in bpy.context.active_object.animation_data.action.fcurves: without
\* an active object, or one without animation data, the attribute access on
\* None raises AttributeError.
set_fcurve_extrapolation_to_linear ==
    /\ At("set_fcurve_extrapolation_to_linear")
    /\ IF active # None /\ active \in DOMAIN extrapolation
       THEN /\ extrapolation' = [extrapolation EXCEPT ![active] = "LINEAR"]
            /\ Return
            /\ UNCHANGED raised
       ELSE /\ Raise("AttributeError")
            /\ UNCHANGED extrapolation
    /\ UNCHANGED <<app_version, db, select_mode, prop, fcurve, scene, clipboard,
                   rng_seed, result, args, history>>

AnimNext ==
    \/ create_data_animation_loop
    \/ create_data_animation_loop_key_start
    \/ create_data_animation_loop_set_mid
    \/ create_data_animation_loop_key_mid
    \/ create_data_animation_loop_set_end
    \/ create_data_animation_loop_key_end
    \/ create_data_animation_loop_extrapolation
    \/ set_fcurve_extrapolation_to_linear

(***************************************************************************)
(* Initial states.                                                         *)
(***************************************************************************)

\* Generic data blocks (images, meshes, materials, ...) with any references
\* among them and any fake users.
Blocks == {IM(i) : i \in 1..MaxBlocks}

InitPurge ==
    /\ app_version \in Versions
    /\ ids \in SUBSET Blocks
    /\ uses \in SUBSET {p \in ids \X ids : p[1] # p[2]}
    /\ fake_user \in SUBSET ids
    /\ scene_links = {}
    /\ scene_world = None
    /\ ob = NoFlags
    /\ coll_hidden = {}
    /\ active = None
    /\ select_mode = "VERT"
    /\ world_bg = NoFlags
    /\ prop = NoFlags
    /\ fcurve = NoFlags
    /\ extrapolation = NoFlags
    /\ scene = DefaultScene
    /\ clipboard = ""
    /\ rng_seed = 0
    /\ stack = <<"purge_orphans">>
    /\ raised = NoError
    /\ result = {}
    /\ args = <<>>
    /\ purge_log = <<>>
    /\ inserted = <<>>
    /\ entered = <<"purge_orphans">>
    /\ printed = <<>>
    /\ entry = Entry

SpecPurge == InitPurge /\ [][PurgeNext]_vars

\* A scene of up to MaxObjects mesh objects, each linked to the scene's own
\* collection or to the collection "Collection", with any hide flags; the
\* active object, if any, in Object, Edit or Sculpt Mode.
Flags == [hide : BOOLEAN, hide_select : BOOLEAN, hide_viewport : BOOLEAN,
          select : BOOLEAN, mode : {"OBJECT"}]
Modes == {"OBJECT", "EDIT", "SCULPT"}

InitClean ==
    /\ app_version \in Versions
    /\ \E n \in 0..MaxObjects :
        \E f \in [{OB(i) : i \in 1..n} -> Flags] :
        \E inColl \in SUBSET {OB(i) : i \in 1..n} :
        \E a \in {OB(i) : i \in 1..n} \cup {None} :
        \E m \in Modes :
            /\ a = None => m = "OBJECT"
            /\ ids = {OB(i) : i \in 1..n} \cup {ME(i) : i \in 1..n} \cup {GR(1), WO(0)}
            /\ uses = {<<OB(i), ME(i)>> : i \in 1..n} \cup {<<GR(1), o>> : o \in inColl}
            /\ scene_links = ({OB(i) : i \in 1..n} \ inColl) \cup {GR(1)}
            /\ ob = [o \in DOMAIN f |-> IF o = a THEN [f[o] EXCEPT !.mode = m] ELSE f[o]]
            /\ active = a
    /\ coll_hidden \in SUBSET {GR(1)}
    /\ fake_user = {}
    /\ scene_world = WO(0)
    /\ world_bg = [w \in {WO(0)} |-> DefaultBackground]
    /\ select_mode = "VERT"
    /\ prop = NoFlags
    /\ fcurve = NoFlags
    /\ extrapolation = NoFlags
    /\ scene = DefaultScene
    /\ clipboard = ""
    /\ rng_seed = 0
    /\ stack = <<"clean_scene">>
    /\ raised = NoError
    /\ result = {}
    /\ args = <<>>
    /\ purge_log = <<>>
    /\ inserted = <<>>
    /\ entered = <<"clean_scene">>
    /\ printed = <<>>
    /\ entry = Entry

SpecClean == InitClean /\ [][CleanNext]_vars

\* The scene main may start from: any worlds, with or without a Background
\* node or a fake user, any of them the scene's world; the default cube or
\* no object.
InitMain ==
    /\ app_version \in Versions
    /\ \E W \in SUBSET {WO(i) : i \in 0..(MaxWorlds - 1)} :
        \E B \in SUBSET W :
        \E img \in SUBSET {IM(1)} :
        \E O \in SUBSET {OB(1)} :
        \E a \in O \cup {None} :
        \E m \in Modes :
        \E h \in BOOLEAN :
            /\ a = None => m = "OBJECT"
            /\ ids = W \cup img \cup O \cup {ME(1) : o \in O} \cup {GR(1)}
            /\ uses = (W \X img) \cup {<<o, ME(1)>> : o \in O} \cup {<<GR(1), o>> : o \in O}
            /\ scene_world \in W \cup {None}
            /\ fake_user \in SUBSET W
            /\ world_bg = [w \in B |-> "blue"]
            /\ ob = [o \in O |-> [hide |-> h, hide_select |-> FALSE, hide_viewport |-> FALSE,
                                  select |-> FALSE,
                                  mode |-> IF o = a THEN m ELSE "OBJECT"]]
            /\ active = a
    /\ scene_links = {GR(1)}
    /\ coll_hidden = {}
    /\ select_mode = "VERT"
    /\ prop = NoFlags
    /\ fcurve = NoFlags
    /\ extrapolation = NoFlags
    /\ scene = DefaultScene
    /\ clipboard = ""
    /\ rng_seed = 0
    /\ stack = <<"main">>
    /\ raised = NoError
    /\ result = {}
    /\ args = <<>>
    /\ purge_log = <<>>
    /\ inserted = <<>>
    /\ entered = <<"main">>
    /\ printed = <<>>
    /\ entry = Entry

SpecMain == InitMain /\ [][MainNext]_vars

\* Up to MaxObjects visible mesh objects in the scene, any of them selected.
\* The objects in Edit Mode, if any, include the active object.
ModeArgs == {"VERTEX", "EDGE", "FACE", "VERT", "face"}
SelectModes == {"VERT", "EDGE", "FACE"}

InitSel ==
    /\ app_version \in Versions
    /\ \E n \in 1..MaxObjects :
        \E S \in SUBSET {OB(i) : i \in 1..n} :
        \E E \in SUBSET {OB(i) : i \in 1..n} :
        \E a \in {OB(i) : i \in 1..n} \cup {None} :
            /\ E # {} => a \in E
            /\ ids = {OB(i) : i \in 1..n} \cup {ME(i) : i \in 1..n}
            /\ uses = {<<OB(i), ME(i)>> : i \in 1..n}
            /\ scene_links = {OB(i) : i \in 1..n}
            /\ ob = [o \in {OB(i) : i \in 1..n} |->
                        [hide |-> FALSE, hide_select |-> FALSE, hide_viewport |-> FALSE,
                         select |-> o \in S,
                         mode |-> IF o \in E THEN "EDIT" ELSE "OBJECT"]]
            /\ active = a
            /\ \E o \in {OB(i) : i \in 1..n} : \E m \in ModeArgs :
                 args = [obj |-> o, mode |-> m]
    /\ select_mode \in SelectModes
    /\ coll_hidden = {}
    /\ fake_user = {}
    /\ scene_world = None
    /\ world_bg = NoFlags
    /\ prop = NoFlags
    /\ fcurve = NoFlags
    /\ extrapolation = NoFlags
    /\ scene = DefaultScene
    /\ clipboard = ""
    /\ rng_seed = 0
    /\ stack = <<"set_selection_mode">>
    /\ raised = NoError
    /\ result = {}
    /\ purge_log = <<>>
    /\ inserted = <<>>
    /\ entered = <<"set_selection_mode">>
    /\ printed = <<>>
    /\ entry = Entry

SpecSel == InitSel /\ [][SelNext]_vars

\* Two objects, either the one animated, either (or none) active, either
\* with animation data already; any values, start frame and loop length.
InitAnim ==
    /\ app_version \in Versions
    /\ ids = {OB(1), OB(2)}
    /\ uses = {}
    /\ scene_links = ids
    /\ ob = [o \in ids |-> [hide |-> FALSE, hide_select |-> FALSE, hide_viewport |-> FALSE,
                            select |-> FALSE, mode |-> "OBJECT"]]
    /\ active \in ids \cup {None}
    /\ prop = [o \in ids |-> 0]
    /\ \E A \in SUBSET ids :
        /\ fcurve = [o \in A |-> NoKeys]
        /\ extrapolation = [o \in A |-> "CONSTANT"]
    /\ args \in [obj : ids, start_value : 0..MaxValue, mid_value : 0..MaxValue,
                 start_frame : 0..MaxFrame, loop_length : (-1)..MaxLoop,
                 linear_extrapolation : BOOLEAN]
    /\ select_mode = "VERT"
    /\ coll_hidden = {}
    /\ fake_user = {}
    /\ scene_world = None
    /\ world_bg = NoFlags
    /\ scene = DefaultScene
    /\ clipboard = ""
    /\ rng_seed = 0
    /\ stack = <<"create_data_animation_loop">>
    /\ raised = NoError
    /\ result = {}
    /\ purge_log = <<>>
    /\ inserted = <<>>
    /\ entered = <<"create_data_animation_loop">>
    /\ printed = <<>>
    /\ entry = Entry

SpecAnim == InitAnim /\ [][AnimNext]_vars

(***************************************************************************)
(* Properties.                                                             *)
(***************************************************************************)
Last(q) == q[Len(q)]
Range(q) == {q[i] : i \in 1..Len(q)}
Legacy == ~TupleGE(app_version, <<3, 0, 0>>)

\* C1: when purge_orphans returns, no data block without a user is left in
\* the database, whichever version branch ran, also when a block lost its
\* last user only because an orphan that referenced it was purged.
C1_NoOrphanAfterPurge == Done => {x \in ids : UsersIn(x, ids) = 0} = {}

\* A legacy host needed three purge calls: a chain of orphans was purged.
C1_Witness ==
    /\ Done
    /\ Legacy
    /\ Len(purge_log) >= 3
    /\ ids # entry.ids

\* C2: purge_orphans terminates.  On a host older than 3.0 every host purge
\* call but the last is not cancelled and is followed by a recursive call
\* (the stack is as deep as the calls made), the last one is cancelled, and
\* there are at most one more calls than data blocks at entry.  On a host
\* from 3.0 on there is exactly one host purge call and no recursion.  Until
\* it has returned the function is at a statement it can execute: the host
\* call, or the test of the one-element result set.
C2_PurgeTerminates ==
    /\ Len(purge_log) <= Cardinality(entry.ids) + 1
    /\ \A i \in 1..(Len(purge_log) - 1) : purge_log[i] = {"FINISHED"}
    /\ Legacy /\ Running =>
          Len(stack) = Len(purge_log) + (IF Head(stack) = "purge_orphans" THEN 1 ELSE 0)
    /\ ~Legacy => Len(purge_log) <= 1 /\ Len(stack) <= 1
    /\ Done => IF Legacy THEN Last(purge_log) = {"CANCELLED"} ELSE Len(purge_log) = 1
    /\ raised = NoError
    /\ ~Done => \/ At("purge_orphans")
                \/ At("purge_orphans_check") /\ Cardinality(result) = 1

\* The worst case on a legacy host: every pass frees one block of a chain.
C2_Witness ==
    /\ Done
    /\ Legacy
    /\ Cardinality(entry.ids) >= 2
    /\ Len(purge_log) = Cardinality(entry.ids) + 1

\* C3: when clean_scene returns the database holds no object and no
\* collection; and when select_all and delete run, no object is in Edit Mode
\* and no object has a hide flag set.
C3_CleanSceneRemovesAll ==
    /\ Done => OfKind(ids, "OB") = {} /\ OfKind(ids, "GR") = {}
    /\ Running /\ Head(stack) \in {"clean_scene_select_all", "clean_scene_delete"} =>
          \A o \in OfKind(ids, "OB") :
              /\ ~ob[o].hide
              /\ ~ob[o].hide_select
              /\ ~ob[o].hide_viewport
              /\ ob[o].mode # "EDIT"

\* clean_scene returned from a scene whose active object was in Edit Mode and
\* that had a hidden, a viewport-hidden and an unselectable object.
C3_Witness ==
    /\ Done
    /\ entry.active \in entry.edit
    /\ entry.hidden = {"hide", "hide_select", "hide_viewport"}
    /\ Cardinality(OfKind(entry.ids, "OB")) >= 2

\* C4: create_data_animation_loop makes exactly three keyframe_insert calls:
\* start_value at start_frame, mid_value at start_frame + loop_length / 2,
\* start_value at start_frame + loop_length (frames in half frames); the
\* first and last hold the same value, the middle frame is as far from the
\* first as from the last, and the property is left at start_value.
C4_ThreeKeyframes ==
    /\ Len(inserted) <= 3
    /\ stack = <<>> =>
        /\ inserted = << [frame |-> 2 * args.start_frame,
                          value |-> args.start_value],
                         [frame |-> 2 * args.start_frame + args.loop_length,
                          value |-> args.mid_value],
                         [frame |-> 2 * args.start_frame + 2 * args.loop_length,
                          value |-> args.start_value] >>
        /\ inserted[1].value = inserted[3].value
        /\ inserted[2].frame - inserted[1].frame = inserted[3].frame - inserted[2].frame
        /\ prop[args.obj] = args.start_value
        /\ \A k \in 1..3 : inserted[k].frame \in DOMAIN fcurve[args.obj]
        /\ fcurve[args.obj][inserted[3].frame] = args.start_value

\* A loop of odd length with different start and middle values returned.
C4_Witness ==
    /\ Done
    /\ Len(inserted) = 3
    /\ args.loop_length = 3
    /\ args.start_value # args.mid_value
    /\ args.linear_extrapolation

\* clean_scene, entered before, is no longer on the stack.
CleanLabels ==
    {"clean_scene", "clean_scene_unhide", "clean_scene_select_all",
     "clean_scene_delete", "clean_scene_collections", "clean_scene_worlds",
     "clean_scene_world_new", "clean_scene_set_world", "clean_scene_purge",
     "purge_orphans", "purge_orphans_check"}
CleanSceneReturned ==
    /\ raised = NoError
    /\ "clean_scene" \in Range(entered)
    /\ Running => Head(stack) \notin CleanLabels

\* C5: once clean_scene has returned, exactly one world exists, it is the one
\* named "World" and it is the scene's world; and no lookup of the world
\* named "World" raises KeyError, in clean_scene or in set_scene_props.
C5_OneWorldNamedWorld ==
    /\ CleanSceneReturned =>
          /\ OfKind(ids, "WO") = {WO(0)}
          /\ scene_world = WO(0)
    /\ raised # "KeyError"

\* main returned from a scene that had several worlds, "World" among them.
C5_Witness ==
    /\ Done
    /\ "set_scene_props" \in Range(entered)
    /\ WO(0) \in entry.ids
    /\ Cardinality(OfKind(entry.ids, "WO")) >= 2

\* The modes set_selection_mode knows and the type each stands for; obj is
\* in Edit Mode when the selection mode is set; the outcome for either kind
\* of mode.
Supported == {"VERTEX", "EDGE", "FACE"}
ExpectedType == [m \in Supported |->
                    IF m = "VERTEX" THEN "VERT" ELSE IF m = "EDGE" THEN "EDGE" ELSE "FACE"]
EditModeFirst ==
    /\ At("set_selection_mode_select") => ob[args.obj].mode = "EDIT"
    /\ At("set_selection_mode_select") /\ args.obj \notin entry.edit =>
          "enter_edit_mode" \in Range(entered)
    /\ raised = NoError
SelectionModeSet ==
    Done =>
        /\ ob[args.obj].mode = "EDIT"
        /\ args.mode \in Supported =>
              select_mode = ExpectedType[args.mode] /\ printed = <<>>
        /\ args.mode \notin Supported =>
              select_mode = entry.select_mode /\ Len(printed) = 1

\* C6 as claimed: set_selection_mode puts obj into Edit Mode before it sets
\* the mesh selection mode to VERT, EDGE or FACE for mode VERTEX, EDGE or
\* FACE; for another mode it prints, leaves the mesh selection mode as it
\* was, and obj is in Edit Mode, active and selected afterwards.
C6_Original ==
    /\ EditModeFirst
    /\ SelectionModeSet
    /\ Done /\ args.mode \notin Supported => active = args.obj /\ ob[args.obj].select

\* C6 as amended: as above, but after an unsupported mode obj is active and
\* selected when it was not in Edit Mode at entry; when it was, the active
\* object and obj's selection are what they were at entry.
C6_Amended ==
    /\ EditModeFirst
    /\ SelectionModeSet
    /\ Done /\ args.mode \notin Supported =>
          IF args.obj \notin entry.edit
          THEN active = args.obj /\ ob[args.obj].select
          ELSE active = entry.active /\ ob[args.obj].select = (args.obj \in entry.selected)

\* An unsupported mode for an object that was already in Edit Mode, neither
\* active nor selected.
C6_Witness ==
    /\ Done
    /\ args.mode \notin Supported
    /\ args.obj \in entry.edit
    /\ active # args.obj
    /\ ~ob[args.obj].select

\* The functions scene_setup calls, in the order of its body.
SetupCallee(f) == f \in {"time_seed", "clean_scene", "set_scene_props"}
SetupOrder == <<"time_seed", "clean_scene", "set_scene_props">>
====
